---- MODULE Spec2Model ----
(***************************************************************************)
(* Model of the Meraki "secure connect" client (client.go): the retrying   *)
(* request executor doRequestWithRetry and the three domain operations     *)
(* built on it.  One domain operation runs at a time on one client; an     *)
(* operation is cut into steps at the points where the Go code blocks      *)
(* (httpClient.Do, and the select of the backoff wait).  The transport,    *)
(* the server and the caller's context are the environment.                *)
(***************************************************************************)
EXTENDS Integers, Sequences, FiniteSets, TLC

(***************************************************************************)
(* Bounds of the model and constants of the program.                       *)
(***************************************************************************)
MaxRetriesBound == 2
MaxPages == 3
DefaultMaxRetries == 3
PerPage == 1000

\* values SetMaxRetries is called with: the code accepts any int
RetryValues == (0 - 1)..MaxRetriesBound

(***************************************************************************)
(* Strings.  A Go string is a sequence of tokens, so that Sprintf,         *)
(* Split, TrimSpace, Contains, Index and slicing are computed.             *)
(***************************************************************************)
Base == <<"https://api.meraki.com/api/v1">>
Other == <<"https://elsewhere.example">>
OrgID == <<"org">>
SiteID == <<"site">>
ApiKey == "secret"

SitesPath(base, orgID) == base \o <<"/organizations/">> \o orgID \o <<"/secureConnect/sites">>
ListURL(base, orgID) == SitesPath(base, orgID) \o <<"?perPage=1000">>

\* addresses a Link header may name for a following page
PageURL(i) == Base \o <<"/page", ToString(i)>>
OtherURL == Other \o <<"/page">>

(***************************************************************************)
(* HTTP responses.                                                         *)
(***************************************************************************)
Statuses == {200, 299, 300, 399, 400, 404, 429, 499, 500, 503}

\* resp.Status: the status line's code and reason phrase
StatusText(code) ==
  CASE code = 200 -> "200 OK"
    [] code = 300 -> "300 Multiple Choices"
    [] code = 400 -> "400 Bad Request"
    [] code = 404 -> "404 Not Found"
    [] code = 429 -> "429 Too Many Requests"
    [] code = 500 -> "500 Internal Server Error"
    [] code = 503 -> "503 Service Unavailable"
    [] OTHER -> ToString(code)

\* A body is the text the server wrote.  kind names its JSON shape:
\*   "wrapped"     {"data":[r1,...,rn]}      "bare"    [r1,...,rn]
\*   "object"      {"error":"x"}             "null"    null
\*   "dataNotList" {"data":"x"}              "scalar"  5
\*   "text"        not JSON                  "empty"   no bytes at all
\* The n records of a list body are the records tag.1 .. tag.n; the server
\* tags the records of the i-th page of a listing with i.
Counts == {0, PerPage - 1, PerPage}
NoTag == "-"
Body(kind, tag, n) == [kind |-> kind, tag |-> tag, n |-> n]
ListBodies(i) == {Body(k, ToString(i), n) : k \in {"wrapped", "bare"}, n \in Counts}
PlainBodies == {Body(k, NoTag, 0) : k \in {"object", "null", "dataNotList", "text", "empty"}}
ErrorBodies == {Body(k, NoTag, 0) : k \in {"text", "empty"}}
EmptyBody == Body("empty", NoTag, 0)

\* Link headers, as token sequences
Directive(u, rel) == <<"<">> \o u \o <<">", ";", " ", rel>>
RelNextQ == "rel=\"next\""
RelNext == "rel=next"
RelPrev == "rel=\"prev\""
NoLink == <<>>
\* the headers that carry a directive with relation next for the URL u
NextLinks(u) ==
  { Directive(u, RelNextQ),
    Directive(u, RelNext),
    Directive(PageURL(0), RelPrev) \o <<",", " ">> \o Directive(u, RelNextQ) }
\* the headers without a directive with relation next that holds a URL
OtherLinks(u) ==
  { Directive(u, RelPrev), <<RelNextQ>>, Directive(<<>>, RelNextQ) }
LinkHeaders(i) ==
  {NoLink} \cup NextLinks(PageURL(i)) \cup {Directive(OtherURL, RelNextQ)}
  \cup OtherLinks(PageURL(i))

Response(code, body, link) == [StatusCode |-> code, Status |-> StatusText(code), Body |-> body, Link |-> link]
NoResp == [StatusCode |-> 0, Status |-> "", Body |-> EmptyBody, Link |-> NoLink]

\* what the server may answer to the request for page number i of a listing
\* (the chain of pages a server links is finite: page MaxPages names no other)
Responses(i) ==
  { Response(200, b, l) : b \in ListBodies(i),
                          l \in IF i < MaxPages THEN LinkHeaders(i) ELSE {NoLink} }
  \cup { Response(200, b, l) : b \in PlainBodies,
                               l \in IF i < MaxPages
                                     THEN {NoLink, Directive(PageURL(i), RelNextQ)}
                                     ELSE {NoLink} }
  \cup { Response(s, b, NoLink) : s \in Statuses \ {200}, b \in ErrorBodies }

(***************************************************************************)
(* Errors.                                                                 *)
(***************************************************************************)
Err(kind, code, status, body, cause) ==
  [kind |-> kind, code |-> code, status |-> status, body |-> body, cause |-> cause]
NilErr == Err("nil", 0, "", EmptyBody, "")
TransportErr == Err("transport", 0, "", EmptyBody, "")
CtxErr == Err("context canceled", 0, "", EmptyBody, "")


(***************************************************************************)
(* The string functions of the Go library the client uses, on token        *)
(* sequences.  Index is 1-based here and 0 when the token is absent        *)
(* (Go: 0-based and -1).                                                   *)
(***************************************************************************)
RECURSIVE Index(_, _, _)
Index(s, tok, from) ==
  IF from > Len(s) THEN 0
  ELSE IF s[from] = tok THEN from
  ELSE Index(s, tok, from + 1)

Contains(s, tok) == \E i \in 1..Len(s) : s[i] = tok

RECURSIVE TrimLeft(_)
TrimLeft(s) == IF s # <<>> /\ Head(s) = " " THEN TrimLeft(Tail(s)) ELSE s

RECURSIVE TrimRight(_)
TrimRight(s) == IF s # <<>> /\ s[Len(s)] = " " THEN TrimRight(SubSeq(s, 1, Len(s) - 1)) ELSE s

TrimSpace(s) == TrimRight(TrimLeft(s))

RECURSIVE Split(_, _)
Split(s, sep) ==
  LET i == Index(s, sep, 1)
  IN IF i = 0 THEN <<s>>
     ELSE <<SubSeq(s, 1, i - 1)>> \o Split(SubSeq(s, i + 1, Len(s)), sep)

(***************************************************************************)
(* json.Unmarshal of a body into the two targets the list operation uses.  *)
(* A result is [ok, n, tag]: ok is "err == nil", and the decoded list is   *)
(* the n records of tag (n = 0: the nil list).                             *)
(***************************************************************************)
Decoded(ok, tag, n) == [ok |-> ok, tag |-> tag, n |-> n]

\* into struct { Data []map[string]interface{} `json:"data"` }: a JSON
\* object decodes, a missing data field leaves Data nil; null is a no-op
UnmarshalWrapped(body) ==
  CASE body.kind = "wrapped" -> Decoded(TRUE, body.tag, body.n)
    [] body.kind = "object" -> Decoded(TRUE, NoTag, 0)
    [] body.kind = "null" -> Decoded(TRUE, NoTag, 0)
    [] OTHER -> Decoded(FALSE, NoTag, 0)

\* into []map[string]interface{}: a JSON list of objects decodes, and null
UnmarshalDirect(body) ==
  CASE body.kind = "bare" -> Decoded(TRUE, body.tag, body.n)
    [] body.kind = "null" -> Decoded(TRUE, NoTag, 0)
    [] OTHER -> Decoded(FALSE, NoTag, 0)

\* a list of records: the sequence of the pages' runs <<tag, n>>, in order
Records(tag, n) == IF n = 0 THEN <<>> ELSE <<[tag |-> tag, n |-> n]>>

\* client.go 186-205: the page's records, or the format-mismatch error
ParsePage(body) ==
  LET w == UnmarshalWrapped(body)
      d == UnmarshalDirect(body)
  IN IF w.ok THEN w
     ELSE IF d.ok THEN d
     ELSE Decoded(FALSE, NoTag, 0)

\* variant: only the quoted form rel="next" taken for the next relation
RECURSIVE ScanLinksQuotedOnly(_)
ScanLinksQuotedOnly(links) ==
  IF links = <<>> THEN <<>>
  ELSE LET link == TrimSpace(Head(links))
           start == Index(link, "<", 1)
           end == Index(link, ">", 1)
       IN IF Contains(link, RelNextQ) /\ start # 0 /\ end # 0 /\ end > start
          THEN SubSeq(link, start + 1, end - 1)
          ELSE ScanLinksQuotedOnly(Tail(links))

\* client.go 207-231: the next page's URL from the Link header, "" if none
RECURSIVE ScanLinks(_)
ScanLinks(links) ==
  IF links = <<>> THEN <<>>
  ELSE LET link == TrimSpace(Head(links))
           start == Index(link, "<", 1)
           end == Index(link, ">", 1)
       IN IF (Contains(link, RelNextQ) \/ Contains(link, RelNext))
             /\ start # 0 /\ end # 0 /\ end > start
          THEN SubSeq(link, start + 1, end - 1)
          ELSE ScanLinks(Tail(links))

NextURL(linkHeader) ==
  IF linkHeader = <<>> THEN <<>> ELSE ScanLinks(Split(linkHeader, ","))

\* NextURL, tabulated over the Link headers a server sends
NextURLs == [l \in UNION {LinkHeaders(i) : i \in 1..MaxPages} |-> NextURL(l)]


(***************************************************************************)
(* State.                                                                  *)
(***************************************************************************)
VARIABLES
  c,          \* the MerakiClient: apiKey, baseURL, maxRetries
  op,         \* the domain operation in progress: "none", "create", "delete", "list"
  pc,         \* "idle"; "do": blocked in httpClient.Do; "backoff": blocked in
              \* the select of the backoff wait; "ret": doRequestWithRetry has
              \* returned to the operation; "done": the operation returned
  ctxDone,    \* the caller's context of the operation is cancelled
  req,        \* the request of the operation
  attempt,    \* doRequestWithRetry's loop variable
  resp,       \* doRequestWithRetry's resp
  bodies,     \* per response the transport handed over in this operation,
              \* in order: TRUE when its body is closed
  deferred,   \* the responses (indices of bodies) with a pending deferred Close
  url,        \* GetSecureConnectSites' url
  allSites,   \* GetSecureConnectSites' allSites
  result,     \* what the operation returned
  ret,        \* history: what the last call of doRequestWithRetry returned
  only503,    \* history: every status the current call of doRequestWithRetry
              \* received before the latest one was 503
  tries,      \* history: httpClient.Do calls of the current call of doRequestWithRetry
  sends,      \* history: httpClient.Do calls of the operation
  nServed,    \* history: the responses doRequestWithRetry returned to the list
              \* operation (each is the answer to the request of one page)
  nFull,      \* history: those of them that were full pages naming a next page
  expected,   \* history: the records of the pages served with status 200, in order
  args,       \* history: the arguments the operation was called with
  totalWait,  \* doRequestWithRetry's totalWait while it waits, in milliseconds
  d,          \* the data source's schema.ResourceData
  listed,     \* what GetSecureConnectSites returns to the data source's read
  diags       \* what dataSourceSecureConnectSiteRead returned

vars == <<c, op, pc, ctxDone, req, attempt, resp, bodies, deferred, url, allSites,
          result, ret, only503, tries, sends, nServed, nFull, expected, args, totalWait,
          d, listed, diags>>
\* the variables of the data source
dsVars == <<d, listed, diags>>

NoArgs == [none |-> TRUE]
NoReq == [method |-> "", url |-> <<>>, key |-> "", body |-> [none |-> TRUE]]
NoRet == [set |-> FALSE, resp |-> NoResp, err |-> NilErr, closed |-> FALSE]
Ret(r, e, closed) == [set |-> TRUE, resp |-> r, err |-> e, closed |-> closed]

NoResult == [kind |-> "none", err |-> NilErr, sites |-> <<>>]
Returned(e, sites) == [kind |-> "returned", err |-> e, sites |-> sites]
Panicked == [kind |-> "panic", err |-> NilErr, sites |-> <<>>]

\* client.go 22-29
NewClient(apiKey, baseURL) ==
  [apiKey |-> apiKey, baseURL |-> baseURL, maxRetries |-> DefaultMaxRetries]

\* no read of the data source in progress
NoData == [organization_id |-> <<>>, site_name |-> "", id |-> "", region |-> "", Id |-> ""]
NoListed == [sites |-> <<>>, err |-> NilErr, set |-> FALSE]
NoDiags == [kind |-> "none", summary |-> ""]

\* the client after NewClient, no operation in progress
Idle ==
  /\ c = NewClient(ApiKey, Base)
  /\ op = "none"
  /\ pc = "idle"
  /\ ctxDone = FALSE
  /\ req = NoReq
  /\ attempt = 0
  /\ resp = NoResp
  /\ bodies = <<>>
  /\ deferred = {}
  /\ url = <<>>
  /\ allSites = <<>>
  /\ result = NoResult
  /\ ret = NoRet
  /\ only503 = TRUE
  /\ tries = 0
  /\ sends = 0
  /\ nServed = 0
  /\ nFull = 0
  /\ expected = <<>>
  /\ args = NoArgs
  /\ totalWait = 0

Init ==
  /\ Idle
  /\ d = NoData
  /\ listed = NoListed
  /\ diags = NoDiags

\* client.go 32-34 (not while an operation of this client is in flight)
SetMaxRetries(maxRetries) ==
  /\ pc = "idle"
  /\ UNCHANGED dsVars
  /\ c' = [c EXCEPT !.maxRetries = maxRetries]
  /\ UNCHANGED <<op, pc, ctxDone, req, attempt, resp, bodies, deferred, url, allSites,
                 result, ret, only503, tries, sends, nServed, nFull, expected, args,
                 totalWait>>

(***************************************************************************)
(* Closing bodies.                                                         *)
(***************************************************************************)
\* variant: without the Close calls of lines 68 and 74
CloseLastSkipped(bs) == bs

\* client.go 68 and 74: resp.Body.Close() on the latest response
CloseLast(bs) == [bs EXCEPT ![Len(bs)] = TRUE]
\* the deferred Close calls idx run (client.go 114, 146, 175)
CloseAll(bs, idx) == [i \in 1..Len(bs) |-> bs[i] \/ i \in idx]


(***************************************************************************)
(* The requests the operations build.                                      *)
(***************************************************************************)
Ctl == "\\x7f"
\* http.NewRequestWithContext fails on a URL url.Parse rejects
ValidURL(u) == ~Contains(u, Ctl)

Request(method, u, key, body) == [method |-> method, url |-> u, key |-> key, body |-> body]

\* variant: regionId and regionName written whether empty or not
EnrollmentAllKeys(siteID, regionType, regionID, regionName) ==
  [k \in {"siteId", "regionType", "regionId", "regionName"} |->
     CASE k = "siteId" -> siteID
       [] k = "regionType" -> regionType
       [] k = "regionId" -> regionID
       [] k = "regionName" -> regionName]

\* client.go 84-97: the JSON object of the create request
Enrollment(siteID, regionType, regionID, regionName) ==
  LET keys == {"siteId", "regionType"}
              \cup (IF regionID # <<>> THEN {"regionId"} ELSE {})
              \cup (IF regionName # <<>> THEN {"regionName"} ELSE {})
  IN [k \in keys |-> CASE k = "siteId" -> siteID
                       [] k = "regionType" -> regionType
                       [] k = "regionId" -> regionID
                       [] k = "regionName" -> regionName]

\* client.go 82-108
CreateRequest(cl, orgID, siteID, regionType, regionID, regionName) ==
  Request("POST", SitesPath(cl.baseURL, orgID), cl.apiKey,
          [enrollments |-> <<Enrollment(siteID, regionType, regionID, regionName)>>])

\* client.go 125-140
DeleteRequest(cl, orgID, siteID) ==
  Request("DELETE", SitesPath(cl.baseURL, orgID), cl.apiKey, [sites |-> <<siteID>>])

\* client.go 163-169
GetRequest(cl, u) == Request("GET", u, cl.apiKey, [none |-> TRUE])

(***************************************************************************)
(* doRequestWithRetry, from one blocking point to the next.                *)
(***************************************************************************)
\* what the transport may hand over for the request in flight
Answers ==
  IF op = "list" THEN Responses(nServed + 1)
  ELSE {Response(s, b, NoLink) : s \in Statuses, b \in ErrorBodies}

\* variant: without the test of line 53
ReturnedAtOnceSuccessOnly(code) == code < 300

\* client.go 48 and 53: the statuses returned to the caller at once
ReturnedAtOnce(code) == code < 300 \/ (code >= 400 /\ code < 500 /\ code # 429)

\* variants of the loop condition: one attempt short, one attempt over
LoopConditionShort(a, maxRetries) == a < maxRetries
LoopConditionOver(a, maxRetries) == a <= maxRetries + 1

\* client.go 41: the loop condition
LoopCondition(a, maxRetries) == a <= maxRetries

\* client.go 58: whether a backoff wait follows the attempt
WaitsAfter(a, maxRetries) == a < maxRetries

\* time.Duration values, in milliseconds
Millisecond == 1
Second == 1000 * Millisecond
\* readings of time.Now().UnixNano(), by their low digits
UnixNanos == {1700000000, 1700000999}

\* variant: a backoff that grows by one second an attempt
BackoffLinear(a) == (a + 1) * Second

\* client.go 59: backoff
Backoff(a) == (2 ^ a) * Second
\* client.go 61: jitter
Jitter(now) == (now % 1000) * Millisecond
\* client.go 62: totalWait
TotalWait(a, now) == Backoff(a) + Jitter(now)

\* an operation calls doRequestWithRetry with the request rq (client.go
\* 37-42): the loop is entered and httpClient.Do called, or, with a negative
\* maxRetries, the loop is skipped and (nil, nil) returned (line 77)
doRequestWithRetry(rq) ==
  /\ req' = rq
  /\ attempt' = 0
  /\ resp' = NoResp
  /\ only503' = TRUE
  /\ IF LoopCondition(0, c.maxRetries)
     THEN /\ pc' = "do"
          /\ tries' = 1
          /\ sends' = (IF pc = "idle" THEN 0 ELSE sends) + 1
          /\ ret' = IF pc = "idle" THEN NoRet ELSE ret
     ELSE /\ pc' = "ret"
          /\ tries' = 0
          /\ sends' = IF pc = "idle" THEN 0 ELSE sends
          /\ ret' = Ret(NoResp, NilErr, FALSE)

\* doRequestWithRetry returns (rr, ee)
ExecutorReturn(rr, ee) ==
  /\ pc' = "ret"
  /\ ret' = Ret(rr, ee, rr # NoResp /\ bodies'[Len(bodies')])
  /\ UNCHANGED <<c, op, ctxDone, req, deferred, url, allSites, result, nServed, nFull,
                 expected, args>>

\* variant: the retries left counted down in the client's maxRetries
NextIterationCountdown ==
  /\ attempt' = attempt + 1
  /\ c' = [c EXCEPT !.maxRetries = c.maxRetries - 1]
  /\ UNCHANGED <<op, ctxDone, req, deferred, url, allSites, result, nServed, nFull,
                 expected, args>>
  /\ IF LoopCondition(attempt + 1, c.maxRetries)
     THEN /\ pc' = "do"
          /\ tries' = tries + 1
          /\ sends' = sends + 1
          /\ UNCHANGED ret
     ELSE /\ pc' = "ret"
          /\ ret' = Ret(resp', NilErr, resp' # NoResp /\ bodies'[Len(bodies')])
          /\ UNCHANGED <<tries, sends>>

\* client.go 74-77 and 41-42: the body of resp is closed and the loop goes
\* round: the next attempt is sent, or the loop ends and resp is returned
NextIteration ==
  /\ attempt' = attempt + 1
  /\ IF LoopCondition(attempt + 1, c.maxRetries)
     THEN /\ pc' = "do"
          /\ tries' = tries + 1
          /\ sends' = sends + 1
          /\ UNCHANGED <<c, op, ctxDone, req, deferred, url, allSites, result, ret,
                         nServed, nFull, expected, args>>
     ELSE /\ UNCHANGED <<tries, sends>>
          /\ ExecutorReturn(resp', NilErr)

\* variant: a failure of httpClient.Do goes round the loop like a response
TransportErrorRetried ==
  /\ pc = "do"
  /\ UNCHANGED dsVars
  /\ resp' = NoResp
  /\ UNCHANGED <<bodies, only503, totalWait>>
  /\ NextIteration

\* client.go 42-45: httpClient.Do fails
TransportError ==
  /\ pc = "do"
  /\ UNCHANGED dsVars
  /\ resp' = NoResp
  /\ UNCHANGED <<attempt, bodies, only503, tries, sends, totalWait>>
  /\ ExecutorReturn(NoResp, TransportErr)

\* client.go 42-77: httpClient.Do hands over the response r
TransportRespond(r) ==
  /\ pc = "do"
  /\ UNCHANGED dsVars
  /\ resp' = r
  /\ only503' = (only503 /\ (attempt = 0 \/ resp.StatusCode = 503))
  /\ IF ReturnedAtOnce(r.StatusCode)
     THEN /\ bodies' = Append(bodies, FALSE)
          /\ UNCHANGED <<attempt, tries, sends, totalWait>>
          /\ ExecutorReturn(r, NilErr)
     ELSE IF WaitsAfter(attempt, c.maxRetries)
     THEN /\ bodies' = Append(bodies, FALSE)
          /\ pc' = "backoff"
          /\ \E now \in UnixNanos : totalWait' = TotalWait(attempt, now)
          /\ UNCHANGED <<c, op, ctxDone, req, attempt, deferred, url, allSites, result,
                         ret, tries, sends, nServed, nFull, expected, args>>
     ELSE \* no wait after this attempt
          /\ bodies' = Append(bodies, TRUE)
          /\ UNCHANGED totalWait
          /\ NextIteration

\* variant: a wait that does not look at ctx.Done()
BackoffUncancellable ==
  /\ pc = "backoff"
  /\ UNCHANGED dsVars
  /\ bodies' = CloseLast(bodies)
  /\ totalWait' = 0
  /\ UNCHANGED <<resp, only503>>
  /\ NextIteration

\* variant: a select without the timer case; the wait ends only with the
\* context
BackoffNeverElapses ==
  /\ pc = "backoff"
  /\ UNCHANGED dsVars
  /\ ctxDone
  /\ bodies' = CloseLast(bodies)
  /\ totalWait' = 0
  /\ UNCHANGED <<attempt, resp, only503, tries, sends>>
  /\ ExecutorReturn(NoResp, CtxErr)

\* client.go 65-66, 74, 41-42: the timer fires first; the body is closed
\* and the next attempt sent
BackoffElapsed ==
  /\ pc = "backoff"
  /\ UNCHANGED dsVars
  /\ ~ctxDone
  /\ bodies' = CloseLast(bodies)
  /\ totalWait' = 0
  /\ UNCHANGED <<resp, only503>>
  /\ NextIteration

\* client.go 67-69: ctx.Done() is ready
BackoffCancelled ==
  /\ pc = "backoff"
  /\ UNCHANGED dsVars
  /\ ctxDone
  /\ bodies' = CloseLast(bodies)
  /\ totalWait' = 0
  /\ UNCHANGED <<attempt, resp, only503, tries, sends>>
  /\ ExecutorReturn(NoResp, CtxErr)

\* the caller cancels the context of the operation in progress
Cancel ==
  /\ pc \in {"do", "backoff"}
  /\ UNCHANGED dsVars
  /\ ~ctxDone
  /\ ctxDone' = TRUE
  /\ UNCHANGED <<c, op, pc, req, attempt, resp, bodies, deferred, url, allSites,
                 result, ret, only503, tries, sends, nServed, nFull, expected, args,
                 totalWait>>


(***************************************************************************)
(* The domain operations.                                                  *)
(***************************************************************************)
RegionTypes == {"CNHE", "CloudHub"}
RegionIDs == {<<>>, <<"region-1">>}
RegionNames == {<<>>, <<"Region One">>}

\* an operation starts on the idle client with a context of its own
Begin(o, u, a) ==
  /\ pc = "idle"
  /\ UNCHANGED dsVars
  /\ op' = o
  /\ args' = a
  /\ ctxDone' = FALSE
  /\ url' = u
  /\ UNCHANGED <<c, bodies, deferred, allSites, result, nServed, nFull, expected, totalWait>>

\* client.go 81-110
CreateSecureConnectSite(orgID, siteID, regionType, regionID, regionName) ==
  /\ Begin("create", <<>>, [orgID |-> orgID, siteID |-> siteID, regionType |-> regionType,
                           regionID |-> regionID, regionName |-> regionName])
  /\ doRequestWithRetry(CreateRequest(c, orgID, siteID, regionType, regionID, regionName))

\* client.go 124-142
DeleteSecureConnectSites(orgID, siteID) ==
  /\ Begin("delete", <<>>, [orgID |-> orgID, siteID |-> siteID])
  /\ doRequestWithRetry(DeleteRequest(c, orgID, siteID))

\* client.go 156-171
GetSecureConnectSites(orgID) ==
  /\ Begin("list", ListURL(c.baseURL, orgID), [orgID |-> orgID])
  /\ doRequestWithRetry(GetRequest(c, ListURL(c.baseURL, orgID)))

\* the operation returns res: its deferred Close calls run
Finish(res, dfr) ==
  /\ pc' = "done"
  /\ result' = res
  /\ bodies' = CloseAll(bodies, dfr)
  /\ deferred' = {}
  /\ UNCHANGED <<c, op, ctxDone, req, attempt, resp, ret, only503, tries, sends, totalWait>>

\* variant: status 300 taken for a success
DomainErrorAbove300(verb, rr, ee) ==
  IF ee # NilErr THEN Returned(ee, <<>>)
  ELSE IF rr = NoResp THEN Panicked
  ELSE IF rr.StatusCode > 300 THEN Returned(Err(verb, 0, rr.Status, EmptyBody, ""), <<>>)
  ELSE Returned(NilErr, <<>>)

\* client.go 111-120 and 143-152: the error create and delete return for
\* the return (rr, ee) of doRequestWithRetry; "panic" for the nil
\* dereference of resp.Body at line 114 or 146
DomainError(verb, rr, ee) ==
  IF ee # NilErr THEN Returned(ee, <<>>)
  ELSE IF rr = NoResp THEN Panicked
  ELSE IF rr.StatusCode >= 300 THEN Returned(Err(verb, 0, rr.Status, EmptyBody, ""), <<>>)
  ELSE Returned(NilErr, <<>>)

\* client.go 110-120
CreateSecureConnectSiteReturn ==
  /\ pc = "ret"
  /\ UNCHANGED dsVars
  /\ op = "create"
  /\ Finish(DomainError("create failed", ret.resp, ret.err),
            IF ret.resp # NoResp THEN {Len(bodies)} ELSE {})
  /\ UNCHANGED <<url, allSites, nServed, nFull, expected, args>>

\* client.go 142-152
DeleteSecureConnectSitesReturn ==
  /\ pc = "ret"
  /\ UNCHANGED dsVars
  /\ op = "delete"
  /\ Finish(DomainError("delete failed", ret.resp, ret.err),
            IF ret.resp # NoResp THEN {Len(bodies)} ELSE {})
  /\ UNCHANGED <<url, allSites, nServed, nFull, expected, args>>

\* io.ReadAll of a response body: a closed body fails the read, except
\* that the body of a response without content (http.NoBody) reads as empty
ReadOutcomes(closed, body) ==
  IF ~closed THEN {TRUE} ELSE IF body.kind = "empty" THEN {TRUE, FALSE} ELSE {FALSE}

\* client.go 172-239: what the list operation does with the return (rr, ee)
\* of doRequestWithRetry: stop with a result, or go on (cont) with url
ListOutcome(cont, res, u, sites) == [cont |-> cont, result |-> res, url |-> u, allSites |-> sites]

\* variant: a page of exactly PerPage records taken for the last one
ListStepShortAtPerPage(rr, ee, u, sites, readOK) ==
  IF ee # NilErr
  THEN ListOutcome(FALSE, Returned(Err("sending request", 0, "", EmptyBody, ee.kind), <<>>), u, sites)
  ELSE IF rr = NoResp THEN ListOutcome(FALSE, Panicked, u, sites)
  ELSE
    LET page == ParsePage(rr.Body)
        all2 == sites \o Records(page.tag, page.n)
        nextURL == NextURLs[rr.Link]
        fail(e) == ListOutcome(FALSE, Returned(e, <<>>), u, sites)
    IN IF ~readOK THEN fail(Err("reading response", 0, "", EmptyBody, "read on closed response body"))
       ELSE IF rr.StatusCode # 200 THEN fail(Err("bad response", rr.StatusCode, "", rr.Body, ""))
       ELSE IF ~page.ok THEN fail(Err("format mismatch", 0, "", EmptyBody, ""))
       ELSE IF rr.Link = <<>> \/ nextURL = <<>>
            THEN ListOutcome(FALSE, Returned(NilErr, all2), u, all2)
       ELSE IF page.n <= PerPage
            THEN ListOutcome(FALSE, Returned(NilErr, all2), nextURL, all2)
       ELSE IF ~ValidURL(nextURL)
            THEN ListOutcome(FALSE, Returned(Err("creating request", 0, "", EmptyBody, "parse"), <<>>),
                             nextURL, all2)
       ELSE ListOutcome(TRUE, NoResult, nextURL, all2)

ListStep(rr, ee, u, sites, readOK) ==
  IF ee # NilErr
  THEN ListOutcome(FALSE, Returned(Err("sending request", 0, "", EmptyBody, ee.kind), <<>>), u, sites)
  ELSE IF rr = NoResp THEN ListOutcome(FALSE, Panicked, u, sites)
  ELSE
    LET page == ParsePage(rr.Body)
        all2 == sites \o Records(page.tag, page.n)
        nextURL == NextURLs[rr.Link]
        fail(e) == ListOutcome(FALSE, Returned(e, <<>>), u, sites)
    IN IF ~readOK THEN fail(Err("reading response", 0, "", EmptyBody, "read on closed response body"))
       ELSE IF rr.StatusCode # 200 THEN fail(Err("bad response", rr.StatusCode, "", rr.Body, ""))
       ELSE IF ~page.ok THEN fail(Err("format mismatch", 0, "", EmptyBody, ""))
       ELSE IF rr.Link = <<>> \/ nextURL = <<>>
            THEN ListOutcome(FALSE, Returned(NilErr, all2), u, all2)
       ELSE IF page.n < PerPage
            THEN ListOutcome(FALSE, Returned(NilErr, all2), nextURL, all2)
       ELSE IF ~ValidURL(nextURL)
            THEN ListOutcome(FALSE, Returned(Err("creating request", 0, "", EmptyBody, "parse"), <<>>),
                             nextURL, all2)
       ELSE ListOutcome(TRUE, NoResult, nextURL, all2)

\* the records a page holds, and the pages that are full and name a next page
PageRecords(body) ==
  IF body.kind \in {"wrapped", "bare"} THEN Records(body.tag, body.n) ELSE <<>>
NextTargets(r) ==
  {u \in {PageURL(i) : i \in 1..MaxPages} \cup {OtherURL} : r.Link \in NextLinks(u)}
FullPage(r) ==
  /\ r.StatusCode = 200
  /\ r.Body.kind \in {"wrapped", "bare"}
  /\ r.Body.n = PerPage
  /\ NextTargets(r) # {}

\* client.go 171-241: GetSecureConnectSites after doRequestWithRetry returned
GetSecureConnectSitesResume(readOK) ==
  /\ pc = "ret"
  /\ UNCHANGED dsVars
  /\ op = "list"
  /\ UNCHANGED args
  /\ readOK \in IF ret.resp # NoResp THEN ReadOutcomes(ret.closed, ret.resp.Body) ELSE {TRUE}
  /\ nServed' = IF ret.resp # NoResp THEN nServed + 1 ELSE nServed
  /\ nFull' = IF FullPage(ret.resp) THEN nFull + 1 ELSE nFull
  /\ expected' = IF ret.resp.StatusCode = 200 THEN expected \o PageRecords(ret.resp.Body)
                 ELSE expected
  /\ LET st == ListStep(ret.resp, ret.err, url, allSites, readOK)
         dfr == IF ret.resp # NoResp THEN deferred \cup {Len(bodies)} ELSE deferred
     IN /\ url' = st.url
        /\ allSites' = st.allSites
        /\ IF st.cont
           THEN /\ doRequestWithRetry(GetRequest(c, st.url))
                /\ deferred' = dfr
                /\ UNCHANGED <<c, op, ctxDone, bodies, result, totalWait>>
           ELSE Finish(st.result, dfr)

\* the caller has the result; the client is free for the next operation
Return ==
  /\ pc = "done"
  /\ UNCHANGED dsVars
  /\ op' = "none"
  /\ pc' = "idle"
  /\ ctxDone' = FALSE
  /\ req' = NoReq
  /\ attempt' = 0
  /\ resp' = NoResp
  /\ bodies' = <<>>
  /\ deferred' = {}
  /\ url' = <<>>
  /\ allSites' = <<>>
  /\ result' = NoResult
  /\ ret' = NoRet
  /\ only503' = TRUE
  /\ tries' = 0
  /\ sends' = 0
  /\ nServed' = 0
  /\ nFull' = 0
  /\ expected' = <<>>
  /\ args' = NoArgs
  /\ totalWait' = 0
  /\ UNCHANGED c

Next ==
  \/ \E n \in RetryValues : SetMaxRetries(n)
  \/ \E t \in RegionTypes, id \in RegionIDs, nm \in RegionNames :
       CreateSecureConnectSite(OrgID, SiteID, t, id, nm)
  \/ DeleteSecureConnectSites(OrgID, SiteID)
  \/ GetSecureConnectSites(OrgID)
  \/ TransportError
  \/ \E r \in Answers : TransportRespond(r)
  \/ BackoffElapsed
  \/ BackoffCancelled
  \/ Cancel
  \/ CreateSecureConnectSiteReturn
  \/ DeleteSecureConnectSitesReturn
  \/ \E readOK \in BOOLEAN : GetSecureConnectSitesResume(readOK)
  \/ Return

Spec == Init /\ [][Next]_vars

\* The steps taken to be bound to happen: httpClient.Do returns (the
\* transport answers or fails; the http.Client of client.go 26 sets no
\* timeout of its own), the timer of time.After fires unless ctx.Done() is
\* taken first (client.go 64-70), and the goroutine of the operation runs on
\* after each of its blocking calls.  The caller's steps (starting an
\* operation, cancelling, SetMaxRetries) are not.
\* httpClient.Do returns: the step from "do" that hands over an error, or
\* the response that is resp after it (of Next, these are the steps
\* TransportError and TransportRespond)
Transport == pc = "do" /\ (TransportError \/ TransportRespond(resp'))
Resume ==
  \/ CreateSecureConnectSiteReturn
  \/ DeleteSecureConnectSitesReturn
  \/ \E readOK \in BOOLEAN : GetSecureConnectSitesResume(readOK)
Fairness ==
  /\ WF_vars(Transport)
  /\ WF_vars(BackoffElapsed)
  /\ WF_vars(BackoffCancelled)
  /\ WF_vars(Resume)
FairSpec == Spec /\ Fairness


(***************************************************************************)
(* The data source: dataSourceSecureConnectSiteRead, over what             *)
(* GetSecureConnectSites returns to it.  A site record is a                *)
(* map[string]interface{}: a field holds a string, a number (float64), or  *)
(* nothing (the key is missing, or its value is null).                     *)
(***************************************************************************)
MaxSites == 2

Str(x) == [type |-> "string", v |-> x]
Nil == [type |-> "nil", v |-> ""]
Num == [type |-> "float64", v |-> "7"]

SiteNames == {"a"}
Names == {Str("a"), Str("b"), Nil, Num}
Ids == {Str("id1"), Str("id2"), Nil, Num}
Regions == {Str("us"), Nil, Num}
Sites == [name : Names, id : Ids, region : Regions]
SiteLists == UNION {[1..n -> Sites] : n \in 0..MaxSites}

\* the returns (sites, err) of GetSecureConnectSites
ListErrs ==
  { Err("sending request", 0, "", EmptyBody, "transport"),
    Err("bad response", 404, "", EmptyBody, "") }
ListReturns ==
  {[sites |-> l, err |-> NilErr, set |-> TRUE] : l \in SiteLists}
  \cup {[sites |-> <<>>, err |-> e, set |-> TRUE] : e \in ListErrs}

ResourceData(orgID, siteName) ==
  [organization_id |-> orgID, site_name |-> siteName, id |-> "", region |-> "", Id |-> ""]

Diag(kind, summary) == [kind |-> kind, summary |-> summary]

\* data_source_secure_connect_site.go 55-71: the loop over sites from index
\* i on, foundSite being found (NilSite: nil)
NilSite == [nil |-> TRUE]
RECURSIVE FindSite(_, _, _, _)
FindSite(sites, siteName, i, found) ==
  IF i > Len(sites) THEN [multiple |-> FALSE, foundSite |-> found]
  ELSE IF sites[i].name.type # "string" THEN FindSite(sites, siteName, i + 1, found)
  ELSE IF sites[i].name.v # siteName THEN FindSite(sites, siteName, i + 1, found)
  ELSE IF found # NilSite THEN [multiple |-> TRUE, foundSite |-> found]
  ELSE FindSite(sites, siteName, i + 1, sites[i])

\* d.Set of a TypeString attribute (lines 78-83): nil clears it, a string
\* sets it, any other value is an error
SetOK(value) == value.type \in {"nil", "string"}

\* data_source_secure_connect_site.go 36-92: the diagnostics returned and
\* the ResourceData left, for the return of GetSecureConnectSites; "panic"
\* for the failed type assertion of line 84
Read(dd, sites, err) ==
  LET r == FindSite(sites, dd.site_name, 1, NilSite)
      foundSite == r.foundSite
      d1 == [dd EXCEPT !.id = foundSite.id.v]
      d2 == [d1 EXCEPT !.region = foundSite.region.v]
      d3 == [d2 EXCEPT !.Id = foundSite.id.v]
  IN IF err # NilErr THEN [diags |-> Diag("error", "error fetching sites"), d |-> dd]
     ELSE IF r.multiple THEN [diags |-> Diag("error", "multiple sites found"), d |-> dd]
     ELSE IF foundSite = NilSite THEN [diags |-> Diag("error", "no site found"), d |-> dd]
     ELSE IF ~SetOK(foundSite.id) THEN [diags |-> Diag("error", "id"), d |-> dd]
     ELSE IF ~SetOK(foundSite.region) THEN [diags |-> Diag("error", "region"), d |-> d1]
     ELSE IF foundSite.id.type # "string" THEN [diags |-> Diag("panic", ""), d |-> d2]
     ELSE [diags |-> Diag("ok", ""), d |-> d3]

\* the data source is read once over a client that is idle: its
\* configuration, and what the list operation will return to it
ReadInit ==
  /\ Idle
  /\ d \in {ResourceData(OrgID, n) : n \in SiteNames}
  /\ listed \in ListReturns
  /\ diags = NoDiags

dataSourceSecureConnectSiteRead ==
  /\ diags = NoDiags
  /\ listed.set
  /\ diags' = Read(d, listed.sites, listed.err).diags
  /\ d' = Read(d, listed.sites, listed.err).d
  /\ UNCHANGED <<c, op, pc, ctxDone, req, attempt, resp, bodies, deferred, url, allSites,
                 result, ret, only503, tries, sends, nServed, nFull, expected, args,
                 totalWait, listed>>

ReadNext == dataSourceSecureConnectSiteRead

ReadSpec == ReadInit /\ [][ReadNext]_vars


(***************************************************************************)
(* The retrying request executor: properties.                              *)
(***************************************************************************)
\* the latest attempt of the current call of doRequestWithRetry has its
\* response: resp is that response
Answered == pc \in {"backoff", "ret"} /\ resp # NoResp

\* C1: with maxRetries = N >= 0 and a transport that answers 503 on the first
\* N attempts and 200 on the next, doRequestWithRetry returns that 200
\* response and no error after N + 1 attempts: while the answers so far are
\* all 503 and at most N, it does not return (a cancelled context apart), and
\* when the answer to attempt N + 1 is 200 it returns it; create and delete
\* have then sent N + 1 requests and send no more.
C1_RetriesUntilSuccess ==
  /\ (Answered /\ pc = "ret" /\ only503 /\ resp.StatusCode = 503 /\ tries <= c.maxRetries)
       => (ctxDone /\ ret.err = CtxErr)
  /\ (Answered /\ pc = "ret" /\ only503 /\ resp.StatusCode = 200 /\ tries = c.maxRetries + 1)
       => (ret.resp = resp /\ ret.err = NilErr)
  /\ (pc = "done" /\ op # "list" /\ only503 /\ resp.StatusCode = 200
        /\ tries = c.maxRetries + 1)
       => (sends = c.maxRetries + 1 /\ ret.resp = resp /\ ret.err = NilErr)

C1_Witness ==
  /\ pc = "ret"
  /\ c.maxRetries = 2
  /\ tries = 3
  /\ only503
  /\ resp.StatusCode = 200
  /\ ret.resp = resp
  /\ ret.err = NilErr

\* C2: a status in [400,500) other than 429 is returned at once, with no
\* error: the call is never in a backoff wait or in a further attempt after
\* such a response, whatever maxRetries is.
NonTransient(code) == code >= 400 /\ code < 500 /\ code # 429
C2_ClientErrorReturnedAtOnce ==
  (resp # NoResp /\ NonTransient(resp.StatusCode))
    => (pc \in {"ret", "done"} /\ ret.resp = resp /\ ret.err = NilErr)

C2_Witness ==
  /\ pc = "ret"
  /\ c.maxRetries = DefaultMaxRetries
  /\ resp.StatusCode = 404
  /\ tries = 1
  /\ ret.resp = resp
  /\ ret.err = NilErr

\* C3: no call makes more than maxRetries + 1 attempts, and a call that
\* returns while the latest answer is 429 or 5xx, its context not cancelled,
\* has made exactly maxRetries + 1 attempts and returns that latest response
\* with a nil error.
Transient(code) == code = 429 \/ code >= 500
C3_RetryBudget ==
  /\ tries <= c.maxRetries + 1
  /\ (Answered /\ pc = "ret" /\ Transient(resp.StatusCode) /\ ~ctxDone)
       => (tries = c.maxRetries + 1 /\ ret.resp = resp /\ ret.err = NilErr)

C3_Witness ==
  /\ pc = "ret"
  /\ c.maxRetries = 2
  /\ tries = 3
  /\ resp.StatusCode = 429
  /\ ret.resp = resp
  /\ ret.err = NilErr

\* C4: when the context is cancelled during a backoff wait, the next step
\* of doRequestWithRetry returns the cancellation error and no response, and
\* sends nothing.
C4_CancelDuringBackoff ==
  [][(pc = "backoff" /\ ctxDone)
       => (pc' = "ret" /\ ret'.resp = NoResp /\ ret'.err = CtxErr
           /\ sends' = sends /\ tries' = tries)]_vars

C4_Witness ==
  /\ pc = "ret"
  /\ ctxDone
  /\ ret.err = CtxErr
  /\ ret.resp = NoResp
  /\ tries = 2

\* C5: a failure of httpClient.Do on any attempt ends doRequestWithRetry at
\* once: it returns that error and no response, with no wait and no further
\* attempt.  (A step from "do" that hands over no response and is not the
\* caller's cancellation is the failure of Do.)
DoFails == pc = "do" /\ Len(bodies') = Len(bodies) /\ ctxDone' = ctxDone
C5_TransportErrorNotRetried ==
  [][DoFails => (pc' = "ret" /\ ret'.resp = NoResp /\ ret'.err = TransportErr
                 /\ sends' = sends /\ tries' = tries)]_vars

C5_Witness ==
  /\ pc = "ret"
  /\ ret.err = TransportErr
  /\ ret.resp = NoResp
  /\ tries = 2


\* C6: a retry (a backoff wait, or a further attempt) follows only a response
\* whose status is 429 or >= 500.
C6_RetryOnlyTransient ==
  /\ pc = "backoff" => Transient(resp.StatusCode)
  /\ (pc = "do" /\ attempt > 0) => Transient(resp.StatusCode)

(***************************************************************************)
(* The domain operations: properties.                                      *)
(***************************************************************************)
\* the latest page the list operation was served, and whether it names no
\* next page
LastPage == ret.resp
NoNextLink(r) == r.Link = NoLink \/ \E i \in 1..MaxPages : r.Link = Directive(PageURL(i), RelPrev)
\* every request of the list operation so far was answered 200 at the first
\* attempt, and every page before the latest was full and named a next page
ChainSoFar(inFlight) ==
  /\ op = "list"
  /\ ret.set
  /\ ret.err = NilErr
  /\ nServed >= 1
  /\ sends = nServed + inFlight
  /\ nFull >= nServed - 1
  /\ LastPage.StatusCode = 200
  /\ LastPage.Body.kind \in {"wrapped", "bare"}

\* C7: for a server of k pages, all answered 200, each but the last full
\* (PerPage records) and naming the next page, the last naming none: the
\* list operation follows the chain to its end (after a full page that names
\* a next page it requests exactly that page, and does not stop), issues k
\* GET requests in all, and returns the pages' records in page order with no
\* error; a single page of zero records gives the empty list.
C7_PaginatedList ==
  /\ (pc = "do" /\ ChainSoFar(1) /\ nFull = nServed)
       => (req.method = "GET" /\ req.url \in NextTargets(LastPage) /\ allSites = expected)
  /\ (pc = "done" /\ ChainSoFar(0))
       => /\ ~FullPage(LastPage)
          /\ NoNextLink(LastPage)
               => (result = Returned(NilErr, expected) /\ sends = nServed)

C7_Witness ==
  /\ pc = "done"
  /\ ChainSoFar(0)
  /\ nServed = 3
  /\ nFull = 2
  /\ LastPage.Link = NoLink
  /\ LastPage.Body.n = PerPage - 1
  /\ result.err = NilErr
  /\ result.sites = <<[tag |-> "1", n |-> PerPage], [tag |-> "2", n |-> PerPage],
                      [tag |-> "3", n |-> PerPage - 1]>>

\* C8: when the final status the list operation receives for a page is not
\* 200, it fails with the domain error that holds the status code and the
\* body text.
C8_NonOKIsDomainError ==
  (pc = "done" /\ op = "list" /\ ret.err = NilErr /\ ret.resp # NoResp
     /\ ret.resp.StatusCode # 200)
    => result = Returned(Err("bad response", ret.resp.StatusCode, "", ret.resp.Body, ""), <<>>)

\* C9: a 200 page whose body is neither an object with a data list nor a
\* bare list makes the list operation fail with the format-mismatch error.
C9_FormatMismatch ==
  (pc = "done" /\ op = "list" /\ ret.err = NilErr /\ ret.resp.StatusCode = 200
     /\ ret.resp.Body.kind \notin {"wrapped", "bare"})
    => result = Returned(Err("format mismatch", 0, "", EmptyBody, ""), <<>>)

\* C10: create and delete, when doRequestWithRetry returned a response or an
\* error: they return nil exactly when it returned a response with status
\* below 300; with a status >= 300 the domain error with the status text;
\* with an error of doRequestWithRetry (transport, cancellation), that error.
C10_CreateDeleteErrors ==
  (pc = "done" /\ op \in {"create", "delete"} /\ (ret.resp # NoResp \/ ret.err # NilErr))
    => /\ result.kind = "returned"
       /\ (result.err = NilErr) <=> (ret.err = NilErr /\ ret.resp.StatusCode < 300)
       /\ ret.err # NilErr => (result.err = ret.err /\ ret.err \in {TransportErr, CtxErr})
       /\ (ret.err = NilErr /\ ret.resp.StatusCode >= 300)
            => result.err = Err(IF op = "create" THEN "create failed" ELSE "delete failed",
                                0, ret.resp.Status, EmptyBody, "")

C10_Witness ==
  /\ pc = "done"
  /\ op = "create"
  /\ ret.err = NilErr
  /\ ret.resp.StatusCode = 503
  /\ tries = c.maxRetries + 1
  /\ result.err = Err("create failed", 0, "503 Service Unavailable", EmptyBody, "")

\* C11: the body of the create request is an object whose enrollments list
\* holds exactly one object; that object always has siteId and regionType
\* (the arguments' values), has regionId exactly when the regionID argument
\* is non-empty and regionName exactly when the regionName argument is
\* non-empty, and has no other key.
C11_CreateBody ==
  op = "create"
    => /\ req.method = "POST"
       /\ DOMAIN req.body = {"enrollments"}
       /\ Len(req.body.enrollments) = 1
       /\ LET e == req.body.enrollments[1]
          IN /\ {"siteId", "regionType"} \subseteq DOMAIN e
             /\ DOMAIN e \subseteq {"siteId", "regionType", "regionId", "regionName"}
             /\ e["siteId"] = args.siteID
             /\ e["regionType"] = args.regionType
             /\ ("regionId" \in DOMAIN e) <=> (args.regionID # <<>>)
             /\ ("regionName" \in DOMAIN e) <=> (args.regionName # <<>>)
             /\ ("regionId" \in DOMAIN e) => e["regionId"] = args.regionID
             /\ ("regionName" \in DOMAIN e) => e["regionName"] = args.regionName

C11_Witness ==
  /\ op = "create"
  /\ pc = "do"
  /\ args.regionID = <<>>
  /\ args.regionName # <<>>
  /\ DOMAIN req.body.enrollments[1] = {"siteId", "regionType", "regionName"}

\* C12: when the domain operation has returned, the body of every response
\* the transport handed over during it is closed, whatever the exit path;
\* and while an attempt is in flight, the body of every earlier response of
\* the operation is closed, but for the pages the list operation accepted
\* (their Close is deferred to its return).
C12_BodiesReleased ==
  /\ pc = "done" => \A i \in 1..Len(bodies) : bodies[i]
  /\ pc = "do" => \A i \in 1..Len(bodies) : bodies[i] \/ i \in deferred

C12_Witness ==
  /\ pc = "done"
  /\ op = "list"
  /\ nServed = 1
  /\ Len(bodies) = 3
  /\ ret.err = CtxErr
  /\ \A i \in 1..Len(bodies) : bodies[i]

\* a response with status 200 whose body the list operation parses, and a
\* Link header with a directive of relation next that holds a URL
ParsedPage(r) ==
  r.StatusCode = 200 /\ r.Body.kind \in {"wrapped", "bare", "object", "null"}
HasNext(r) == NextTargets(r) # {}

\* C14: after a parsed 200 page the list operation issues a further request
\* exactly when the page's Link header has a directive of relation next that
\* holds a URL and the page held at least PerPage records: a request in
\* flight after a served page follows such a page and goes to exactly that
\* URL, which is the new url; and when the operation has returned after a
\* parsed page, the page was not such a page, and the result is the records
\* accumulated so far with no error.
C14_Continuation ==
  /\ (op = "list" /\ pc \in {"do", "backoff"} /\ nServed >= 1)
       => /\ ret.err = NilErr
          /\ ParsedPage(ret.resp)
          /\ ret.resp.Body.n >= PerPage
          /\ NextTargets(ret.resp) = {req.url}
          /\ url = req.url
  /\ (op = "list" /\ pc = "done" /\ ret.err = NilErr /\ ParsedPage(ret.resp))
       => /\ ~(HasNext(ret.resp) /\ ret.resp.Body.n >= PerPage)
          /\ result = Returned(NilErr, expected)

C14_Witness ==
  /\ op = "list"
  /\ pc = "done"
  /\ nServed = 2
  /\ ParsedPage(ret.resp)
  /\ ret.resp.Link = Directive(PageURL(2), RelNext)
  /\ ret.resp.Body.n = PerPage - 1
  /\ req.url = PageURL(1)
  /\ result = Returned(NilErr, <<[tag |-> "1", n |-> PerPage], [tag |-> "2", n |-> PerPage - 1]>>)

\* C15: doRequestWithRetry waits exactly once between two consecutive
\* attempts and never after the last one: a further attempt of a call starts
\* from a wait, a wait ends in the next attempt or in the return on
\* cancellation, and a wait follows only an attempt with index k below
\* maxRetries; that wait is set to at least 2^k seconds and to less than
\* 2^k + 1 seconds.
C15_BackoffWaits ==
  /\ [](pc = "backoff"
          => /\ attempt < c.maxRetries
             /\ totalWait >= (2 ^ attempt) * 1000
             /\ totalWait < (2 ^ attempt) * 1000 + 1000)
  /\ [][/\ (tries >= 1 /\ tries' = tries + 1) => (pc = "backoff" /\ ~ctxDone)
        /\ pc = "backoff"
             => \/ (pc' = "backoff" /\ tries' = tries)
                \/ (pc' = "do" /\ tries' = tries + 1 /\ attempt' = attempt + 1)
                \/ (pc' = "ret" /\ ctxDone /\ tries' = tries)]_vars

C15_Witness ==
  /\ pc = "backoff"
  /\ c.maxRetries = DefaultMaxRetries
  /\ attempt = 2
  /\ tries = 3
  /\ totalWait = 4999

\* C16: every step of an operation (its start, the steps of
\* doRequestWithRetry, its return) leaves the client's apiKey, baseURL and
\* maxRetries as they are; the client changes only by SetMaxRetries, between
\* operations, and then in maxRetries alone.
C16_ClientFrame ==
  [][/\ (op # "none" \/ op' # "none") => c' = c
     /\ c' # c => /\ pc = "idle" /\ pc' = "idle"
                  /\ c'.apiKey = c.apiKey
                  /\ c'.baseURL = c.baseURL
                  /\ c'.maxRetries # c.maxRetries]_vars

C16_Witness ==
  /\ pc = "done"
  /\ op = "list"
  /\ c = [apiKey |-> ApiKey, baseURL |-> Base, maxRetries |-> 1]
  /\ nServed = 2
  /\ sends = 4

\* C17: whenever doRequestWithRetry returns a response and a nil error, the
\* body of that response is not closed, on every return path.
C17_ReturnedBodyOpen ==
  (pc = "ret" /\ ret.err = NilErr /\ ret.resp # NoResp) => ~ret.closed

\* C18: whatever maxRetries is, doRequestWithRetry never returns a nil
\* response with a nil error, and no operation dereferences a nil response.
C18_ResponseOrError ==
  /\ pc = "ret" => (ret.resp # NoResp \/ ret.err # NilErr)
  /\ result.kind # "panic"

\* C19: a request that carries the credential goes to a URL that starts
\* with the client's baseURL, the continuation requests of the list
\* operation included.
HasPrefix(s, prefix) == Len(s) >= Len(prefix) /\ SubSeq(s, 1, Len(prefix)) = prefix
C19_CredentialOnlyToBase ==
  (pc = "do" /\ req.key = c.apiKey) => HasPrefix(req.url, c.baseURL)

(***************************************************************************)
(* Termination.                                                            *)
(***************************************************************************)
\* C13: under FairSpec, a call of doRequestWithRetry with maxRetries >= 0
\* that has an attempt in flight or is in a backoff wait returns to its
\* operation, and every operation in progress, the list operation over the
\* finite chain of pages included, returns to its caller.
C13_Termination ==
  /\ (pc \in {"do", "backoff"} /\ c.maxRetries >= 0) ~> (pc = "ret")
  /\ (op \in {"create", "delete", "list"}) ~> (pc = "done")

C13_Witness ==
  /\ pc = "done"
  /\ op = "list"
  /\ result.kind = "returned"
  /\ c.maxRetries = MaxRetriesBound
  /\ nServed = MaxPages
  /\ sends = MaxPages + MaxRetriesBound

(***************************************************************************)
(* The data source: properties.                                            *)
(***************************************************************************)
\* the records whose name is a string equal to the configured site_name
Matching == {i \in 1..Len(listed.sites) : listed.sites[i].name = Str(d.site_name)}

\* C20: the read succeeds exactly when the list operation succeeded and
\* exactly one record has a string name equal to site_name, and it has then
\* set id and region from that record; in every other case (no match, two
\* or more matches, a failed list) it fails with an error, records with a
\* missing or non-string name counting for nothing.
C20_ReadExactlyOne ==
  diags # NoDiags
    => /\ diags.kind \in {"ok", "error"}
       /\ (diags.kind = "ok") <=> (listed.err = NilErr /\ Cardinality(Matching) = 1)
       /\ diags.kind = "ok"
            => \A i \in Matching : /\ d.id = listed.sites[i].id.v
                                   /\ d.region = listed.sites[i].region.v

====
